---- MODULE Spec2Model ----
(***************************************************************************)
(* Model of bjorklund(onsets, steps, rotation, evenness) from              *)
(* src/bjorklund.py: one call of the function, followed position by        *)
(* position (validation, preparation of the working lists, the pairing     *)
(* loop one iteration at a time, re-attachment of the withheld zeros,      *)
(* rotation, return).                                                      *)
(*                                                                         *)
(* Python values are represented as follows.                               *)
(*  - A list element ("unit") is either an int or a nested list.  A unit   *)
(*    is a record: Leaf(b) for the int b, Group(s) for the list s.         *)
(*  - evenness is a float.  The model draws it from the binary fractions   *)
(*    k / 2^EvBits and stores the numerator k; on these values (and the    *)
(*    small integers involved) IEEE double arithmetic is exact, so         *)
(*    (1 - evenness) * (steps - onsets) is computed exactly and int()      *)
(*    truncates it toward zero.                                            *)
(***************************************************************************)
EXTENDS Integers, Sequences, FiniteSets, TLC

\* ---------------------------------------------------------------- bounds
MaxSteps == 8   \* largest steps argument drawn
MaxRot   == 9   \* rotation is drawn from -MaxRot..MaxRot
EvBits   == 3   \* evenness is drawn from multiples of 1 / 2^EvBits

EvDen == 2 ^ EvBits   \* the numerator EvDen stands for evenness 1.0

\* ------------------------------------------------------------ python values
Leaf(b)  == [leaf |-> TRUE,  bit |-> b, items |-> <<>>]
Group(s) == [leaf |-> FALSE, bit |-> 0, items |-> s]

\* n * [v]; a non-positive n gives the empty list
Repeat(n, v) == IF n <= 0 THEN <<>> ELSE [i \in 1..n |-> v]

\* int(x) for the rational x = num / EvDen: truncation toward zero
IntTrunc(num) == IF num >= 0 THEN num \div EvDen ELSE -((-num) \div EvDen)

\* flatten (generator, lines 23-33): pop the head; a list is spliced back in
\* front of the rest, anything else is yielded
RECURSIVE flatten(_)
flatten(nested_list) ==
    IF Len(nested_list) = 0 THEN <<>>
    ELSE LET sublist == Head(nested_list)
             rest    == Tail(nested_list)
         IN IF ~sublist.leaf
               THEN flatten(sublist.items \o rest)
               ELSE <<sublist.bit>> \o flatten(rest)

\* the asserts of lines 34-41, in order; typeErr names the argument (if any)
\* that fails its isinstance check
Valid(o, s, e, typeErr) ==
    /\ typeErr # "steps"
    /\ s > 0
    /\ typeErr # "onsets"
    /\ o <= s
    /\ typeErr # "rotation"
    /\ typeErr # "evenness"
    /\ e >= 0
    /\ e <= EvDen

\* line 44: reduction = int((1 - evenness) * (steps - onsets))
Reduction_WrongSide(o, s, e) == IntTrunc(e * (s - o))
Reduction(o, s, e) == IntTrunc((EvDen - e) * (s - o))

\* lines 46-47
Ones(o) == Repeat(o, Leaf(1))
Zeroes_NothingWithheld(o, s, red) == Repeat(s - o, Leaf(0))
Zeroes(o, s, red) == Repeat(s - o - red, Leaf(0))

\* lines 48-53: <<larger, smaller>>; the strictly longer list is larger and on
\* a tie zeroes is larger
InitialLists_TieToOnes(ones, zeroes) ==
    IF Len(ones) >= Len(zeroes) THEN <<ones, zeroes>> ELSE <<zeroes, ones>>
InitialLists(ones, zeroes) ==
    IF Len(ones) > Len(zeroes) THEN <<ones, zeroes>> ELSE <<zeroes, ones>>

\* lines 58-61
PairedElements_Swapped(lg, sm) ==
    [i \in 1..Len(sm) |-> Group(<<sm[i], lg[i]>>)]
PairedElements(lg, sm) ==
    [i \in 1..Len(sm) |-> Group(<<lg[i], sm[i]>>)]

\* line 63: larger[len(smaller):]
UnpairedElements_OffByOne(lg, sm) == SubSeq(lg, Len(sm) + 2, Len(lg))
UnpairedElements_NoShrink(lg, sm) == lg
UnpairedElements(lg, sm) == SubSeq(lg, Len(sm) + 1, Len(lg))

\* lines 72-77: <<larger, smaller>> of the next iteration; the strictly longer
\* list is larger and on a tie paired_elements is larger
NextLists_TieToUnpaired(unp, prd) ==
    IF Len(unp) >= Len(prd) THEN <<unp, prd>> ELSE <<prd, unp>>
NextLists(unp, prd) ==
    IF Len(unp) > Len(prd) THEN <<unp, prd>> ELSE <<prd, unp>>

\* lines 56-77 as a whole: the value of sequence when the loop breaks
RECURSIVE PairingLoop(_, _)
PairingLoop(lg, sm) ==
    LET prd == PairedElements(lg, sm)
        unp == UnpairedElements(lg, sm)
    IN IF Len(unp) = 0 THEN flatten(prd)
       ELSE IF Len(prd) = 0 THEN flatten(unp)
       ELSE PairingLoop(NextLists(unp, prd)[1], NextLists(unp, prd)[2])

\* line 79: sequence += reduction * [0]
AddBack_InFront(seq, red) == Repeat(red, 0) \o seq
AddBack(seq, red) == seq \o Repeat(red, 0)

\* deque.rotate(n) (line 83): n steps to the right, to the left when n is
\* negative; an empty deque is left alone
DequeRotate_Left(seq, n) ==
    IF Len(seq) = 0 THEN seq
    ELSE [i \in 1..Len(seq) |-> seq[((i - 1 + n) % Len(seq)) + 1]]
DequeRotate(seq, n) ==
    IF Len(seq) = 0 THEN seq
    ELSE [i \in 1..Len(seq) |-> seq[((i - 1 - n) % Len(seq)) + 1]]

\* the whole function on arguments that pass validation (lines 44-85)
bjorklund(o, s, r, e) ==
    LET red   == Reduction(o, s, e)
        lists == InitialLists(Ones(o), Zeroes(o, s, red))
    IN DequeRotate(AddBack(PairingLoop(lists[1], lists[2]), red), r)

\* ------------------------------------------------------------------- state
VARIABLES
    onsets, steps, rotation, evenness,  \* the arguments (evenness: numerator)
    typeErr,            \* the argument failing its isinstance check, or "none"
    pc,                 \* position in the function
    reduction,          \* line 44
    larger, smaller,    \* the working lists
    paired_elements, unpaired_elements,
    sequence,           \* the local variable sequence
    result,             \* the returned list
    iterations          \* number of passes through the loop body so far

vars == <<onsets, steps, rotation, evenness, typeErr, pc, reduction, larger,
          smaller, paired_elements, unpaired_elements, sequence, result,
          iterations>>

args == <<onsets, steps, rotation, evenness, typeErr>>

TypeErrs == {"none", "steps", "onsets", "rotation", "evenness"}

Init ==
    /\ steps \in -1..MaxSteps
    /\ onsets \in -1..(MaxSteps + 1)
    /\ rotation \in (-MaxRot)..MaxRot
    /\ evenness \in -1..(EvDen + 1)
    /\ typeErr \in TypeErrs
    /\ pc = "validate"
    /\ reduction = 0
    /\ larger = <<>>
    /\ smaller = <<>>
    /\ paired_elements = <<>>
    /\ unpaired_elements = <<>>
    /\ sequence = <<>>
    /\ result = <<>>
    /\ iterations = 0

\* lines 34-41: a failing assert raises AssertionError and nothing is returned
ValidateReject ==
    /\ pc = "validate"
    /\ ~Valid(onsets, steps, evenness, typeErr)
    /\ pc' = "rejected"
    /\ UNCHANGED <<args, reduction, larger, smaller, paired_elements,
                   unpaired_elements, sequence, result, iterations>>

ValidateAccept ==
    /\ pc = "validate"
    /\ Valid(onsets, steps, evenness, typeErr)
    /\ pc' = "prepare"
    /\ UNCHANGED <<args, reduction, larger, smaller, paired_elements,
                   unpaired_elements, sequence, result, iterations>>

\* lines 44-53
Prepare ==
    /\ pc = "prepare"
    /\ LET red   == Reduction(onsets, steps, evenness)
           lists == InitialLists(Ones(onsets), Zeroes(onsets, steps, red))
       IN /\ reduction' = red
          /\ larger' = lists[1]
          /\ smaller' = lists[2]
    /\ pc' = "loop"
    /\ UNCHANGED <<args, paired_elements, unpaired_elements, sequence, result,
                   iterations>>

\* lines 58-67: one pass that leaves by the first break
PairBreakUnpairedEmpty ==
    /\ pc = "loop"
    /\ LET prd == PairedElements(larger, smaller)
           unp == UnpairedElements(larger, smaller)
       IN /\ Len(unp) = 0
          /\ paired_elements' = prd
          /\ unpaired_elements' = unp
          /\ sequence' = flatten(prd)
    /\ iterations' = iterations + 1
    /\ pc' = "addback"
    /\ UNCHANGED <<args, reduction, larger, smaller, result>>

\* lines 58-70: one pass that leaves by the second break
PairBreakPairedEmpty ==
    /\ pc = "loop"
    /\ LET prd == PairedElements(larger, smaller)
           unp == UnpairedElements(larger, smaller)
       IN /\ Len(unp) # 0
          /\ Len(prd) = 0
          /\ paired_elements' = prd
          /\ unpaired_elements' = unp
          /\ sequence' = flatten(unp)
    /\ iterations' = iterations + 1
    /\ pc' = "addback"
    /\ UNCHANGED <<args, reduction, larger, smaller, result>>

\* lines 58-77: one pass that goes round again
PairContinue ==
    /\ pc = "loop"
    /\ LET prd == PairedElements(larger, smaller)
           unp == UnpairedElements(larger, smaller)
       IN /\ Len(unp) # 0
          /\ Len(prd) # 0
          /\ paired_elements' = prd
          /\ unpaired_elements' = unp
          /\ larger' = NextLists(unp, prd)[1]
          /\ smaller' = NextLists(unp, prd)[2]
    /\ iterations' = iterations + 1
    /\ pc' = "loop"
    /\ UNCHANGED <<args, reduction, sequence, result>>

\* line 79
AddBackZeros ==
    /\ pc = "addback"
    /\ sequence' = AddBack(sequence, reduction)
    /\ pc' = "rotate"
    /\ UNCHANGED <<args, reduction, larger, smaller, paired_elements,
                   unpaired_elements, result, iterations>>

\* lines 81-83
Rotate ==
    /\ pc = "rotate"
    /\ sequence' = DequeRotate(sequence, rotation)
    /\ pc' = "return"
    /\ UNCHANGED <<args, reduction, larger, smaller, paired_elements,
                   unpaired_elements, result, iterations>>

\* line 85
Return ==
    /\ pc = "return"
    /\ result' = sequence
    /\ pc' = "done"
    /\ UNCHANGED <<args, reduction, larger, smaller, paired_elements,
                   unpaired_elements, sequence, iterations>>

Next ==
    \/ ValidateReject
    \/ ValidateAccept
    \/ Prepare
    \/ PairBreakUnpairedEmpty
    \/ PairBreakPairedEmpty
    \/ PairContinue
    \/ AddBackZeros
    \/ Rotate
    \/ Return

Spec == Init /\ [][Next]_vars

\* the interpreter runs the function to its end: every enabled step is taken
FairSpec == Spec /\ WF_vars(Next)

\* ------------------------------------------------------------ properties
\* arguments the specification calls valid
ValidArgs ==
    /\ typeErr = "none"
    /\ steps > 0
    /\ 0 <= onsets /\ onsets <= steps
    /\ 0 <= evenness /\ evenness <= EvDen

Returned == pc = "done"

Count(seq, v) == Cardinality({i \in 1..Len(seq) : seq[i] = v})

\* C1: for every valid input the returned sequence holds exactly onsets ones
\* and steps - onsets zeros and nothing else, so its length is steps, whatever
\* the evenness and the rotation.
C1_CountAndLength ==
    (Returned /\ ValidArgs) =>
        /\ Len(result) = steps
        /\ Count(result, 1) = onsets
        /\ Count(result, 0) = steps - onsets

C1_Witness ==
    /\ Returned /\ ValidArgs
    /\ rotation # 0
    /\ 0 < onsets
    /\ 0 < reduction /\ reduction < steps - onsets
    /\ iterations > 1

Classic_3_8 == <<1, 0, 0, 1, 0, 0, 1, 0>>
Classic_5_8 == <<1, 0, 1, 1, 0, 1, 1, 0>>

Is_3_8 == ValidArgs /\ onsets = 3 /\ steps = 8 /\ rotation = 0 /\ evenness = EvDen
Is_5_8 == ValidArgs /\ onsets = 5 /\ steps = 8 /\ rotation = 0 /\ evenness = EvDen

\* C2 (as stated): bjorklund(3, 8, 0, 1.0) returns exactly [1,0,0,1,0,0,1,0].
C2_Original == (Returned /\ Is_3_8) => result = Classic_3_8

\* C2 (amended): bjorklund(3, 8, 0, 1.0) returns exactly [0,1,0,0,1,0,1,0],
\* which is the classic pattern [1,0,0,1,0,0,1,0] rotated left by two.
C2_Amended ==
    (Returned /\ Is_3_8) =>
        /\ result = <<0, 1, 0, 0, 1, 0, 1, 0>>
        /\ result = [i \in 1..8 |-> Classic_3_8[((i - 1 + 2) % 8) + 1]]

C2_Witness == Returned /\ Is_3_8 /\ iterations = 4

\* C3 (as stated): bjorklund(5, 8, 0, 1.0) returns exactly [1,0,1,1,0,1,1,0].
C3_Original == (Returned /\ Is_5_8) => result = Classic_5_8

\* C3 (amended): bjorklund(5, 8, 0, 1.0) returns exactly [1,0,1,1,0,1,0,1],
\* which is the reference pattern [1,0,1,1,0,1,1,0] rotated left by three.
C3_Amended ==
    (Returned /\ Is_5_8) =>
        /\ result = <<1, 0, 1, 1, 0, 1, 0, 1>>
        /\ result = [i \in 1..8 |-> Classic_5_8[((i - 1 + 3) % 8) + 1]]

C3_Witness == Returned /\ Is_5_8 /\ Len(result) = 8

\* C4: a call with steps <= 0, or onsets outside 0..steps (below 0 as well as
\* above steps), or evenness outside [0,1] is rejected during validation: it
\* never gets past the checks and never returns a sequence.
C4_InvalidRejected ==
    (steps <= 0 \/ onsets < 0 \/ onsets > steps
        \/ evenness < 0 \/ evenness > EvDen)
    => pc \in {"validate", "rejected"}

\* C5: for every valid input the result is the rotation-0 result rotated right
\* by rotation mod steps: the element at index i of the unrotated result is at
\* index (i + rotation) mod steps of the returned one (so a multiple of steps
\* is the identity and -1 acts as steps - 1).
C5_Rotation ==
    (Returned /\ ValidArgs) =>
        LET base == bjorklund(onsets, steps, 0, evenness)
        IN /\ Len(result) = Len(base)
           /\ \A i \in 0..(steps - 1) :
                 result[((i + rotation) % steps) + 1] = base[i + 1]
           /\ (rotation % steps = 0) => result = base

C5_Witness ==
    /\ Returned /\ ValidArgs
    /\ rotation < -steps
    /\ rotation % steps # 0
    /\ 0 < onsets /\ onsets < steps
    /\ result # bjorklund(onsets, steps, 0, evenness)

\* C6: at evenness 0.0 and rotation 0 the result is onsets ones followed by
\* steps - onsets zeros, also when onsets = 0.
C6_EvennessZero ==
    (Returned /\ ValidArgs /\ rotation = 0 /\ evenness = 0) =>
        result = Repeat(onsets, 1) \o Repeat(steps - onsets, 0)

C6_Witness ==
    /\ Returned /\ ValidArgs /\ rotation = 0 /\ evenness = 0
    /\ 1 < onsets /\ onsets + 1 < steps

\* cyclic distance from the onset at index i (1-based) to the next onset
NextOnsetDistance(seq, i) ==
    CHOOSE d \in 1..Len(seq) :
        /\ seq[((i - 1 + d) % Len(seq)) + 1] = 1
        /\ \A k \in 1..(d - 1) : seq[((i - 1 + k) % Len(seq)) + 1] # 1

\* C7: at evenness 1.0, for every valid input with onsets >= 1 and any
\* rotation, the cyclic distance from each onset to the next one is
\* floor(steps/onsets) or ceil(steps/onsets).
C7_MaximallyEven ==
    (Returned /\ ValidArgs /\ evenness = EvDen /\ onsets >= 1) =>
        \A i \in 1..Len(result) :
            result[i] = 1 =>
                NextOnsetDistance(result, i) \in
                    {steps \div onsets, (steps + onsets - 1) \div onsets}

C7_Witness ==
    /\ Returned /\ ValidArgs /\ evenness = EvDen
    /\ onsets > 1 /\ steps % onsets # 0
    /\ rotation # 0
    /\ iterations > 2

LoopEntered == pc \in {"loop", "addback", "rotate", "return", "done"}

\* C8: the pairing loop terminates, by one of its two breaks (unpaired list
\* empty or paired list empty), after at most steps iterations; every
\* iteration that does not break shrinks len(larger) + len(smaller) by
\* len(smaller), which is at least 1.
C8_LoopTerminates ==
    /\ [](LoopEntered => iterations <= steps)
    /\ [][pc = "loop" =>
            \/ /\ pc' = "addback"
               /\ Len(unpaired_elements') = 0 \/ Len(paired_elements') = 0
            \/ /\ pc' = "loop"
               /\ Len(smaller) >= 1
               /\ Len(larger') + Len(smaller')
                    = Len(larger) + Len(smaller) - Len(smaller)]_vars
    /\ (pc = "loop") ~> (pc = "addback")

C8_Witness ==
    /\ pc = "addback" /\ ValidArgs
    /\ iterations = 4

\* C9: for every valid input with rotation 0, reduction is
\* floor((1 - evenness) * (steps - onsets)) and the result is the
\* evenness-1.0, rotation-0 result for (onsets, steps - reduction) followed by
\* reduction zeros (an empty prefix when steps - reduction = 0).
C9_EvennessWithholdsRests ==
    (Returned /\ ValidArgs /\ rotation = 0) =>
        /\ reduction \in 0..(steps - onsets)
        /\ reduction * EvDen <= (EvDen - evenness) * (steps - onsets)
        /\ (EvDen - evenness) * (steps - onsets) < (reduction + 1) * EvDen
        /\ result =
             (IF steps - reduction = 0 THEN <<>>
              ELSE bjorklund(onsets, steps - reduction, 0, EvDen))
             \o Repeat(reduction, 0)

C9_Witness ==
    /\ Returned /\ ValidArgs /\ rotation = 0
    /\ 0 < reduction /\ reduction < steps - onsets
    /\ ((EvDen - evenness) * (steps - onsets)) % EvDen # 0
    /\ 0 < onsets
    /\ iterations > 1

\* C10: for valid input with rotation 0 and 0 < onsets < steps the first
\* element of the result is 1 exactly when onsets > steps - onsets - reduction;
\* otherwise (the tie included) it is 0.
C10_MajorityLeads ==
    (Returned /\ ValidArgs /\ rotation = 0 /\ 0 < onsets /\ onsets < steps) =>
        /\ result[1] \in {0, 1}
        /\ result[1] = 1 <=> onsets > steps - onsets - reduction

C10_Witness ==
    /\ Returned /\ ValidArgs /\ rotation = 0
    /\ 0 < onsets /\ onsets < steps
    /\ onsets = steps - onsets - reduction
    /\ result[1] = 0

====
